---- MODULE Spec2Model ----
(***************************************************************************)
(* Session transport and stream aggregator of the gemini-rag front end.    *)
(*                                                                         *)
(*   ChatWebSocketManager   src/unnamed/part_011 (lines 80-467)            *)
(*   WebSocketProvider      src/frontend/src/contexts/WebSocketContext.tsx *)
(*                                                                         *)
(* The manager is a single object whose callbacks (socket events, timers,  *)
(* promise continuations) run one at a time on the JavaScript event loop.  *)
(* Every action below is one such task together with the microtasks it     *)
(* queues: a promise continuation runs before the next event is delivered. *)
(* A step of a handler is written as a function from the record of all     *)
(* fields to the record after the step, so that the statements of a        *)
(* handler compose in program order.                                       *)
(***************************************************************************)
EXTENDS Integers, Sequences, FiniteSets, TLC

VARIABLES
    ws,                   \* this.ws: 0 is null, otherwise the id of a socket
    sock,                 \* every socket ever created: its connection state
    promise,              \* per socket: the promise createWebSocket returned
    timer,                \* per socket: connectTimeout is armed
    nsock,                \* number of sockets created so far
    status,               \* this.status
    shouldReconnect,      \* this.shouldReconnect
    reconnectAttempts,    \* this.reconnectAttempts
    maxReconnectAttempts, \* this.maxReconnectAttempts
    reconnectDelay,       \* this.reconnectDelay, in milliseconds
    connectionPromise,    \* this.connectionPromise is not null
    heartbeatInterval,    \* this.heartbeatInterval is not null
    pongAge,              \* heartbeat periods elapsed since lastPongTime
    messageHandlers,      \* this.messageHandlers
    statusHandlers,       \* this.statusHandlers
    sleepers,             \* pending sleep() calls, by the code that awaits them
    wsConnected,          \* WebSocketProvider state: wsConnected
    wsConnecting,         \* WebSocketProvider state: wsConnecting
    messages,             \* WebSocketProvider state: messages
    isLoading,            \* WebSocketProvider state: isLoading
    http,                 \* pending calls of the HTTP fallback (apiSendMessage)
    wire,                 \* per socket: queries sent and not yet read by the server
    srv,                  \* per socket: what the server is doing for its session
    used,                 \* queries started and chunks streamed in this run
    rag,                  \* the retrieval pipeline: files, selection, query, engine
    eng,                  \* the engine's services: search, prompt, stream, log
    hist                  \* history of the run, read by the properties only

vars == <<ws, sock, promise, timer, nsock, status, shouldReconnect,
          reconnectAttempts, maxReconnectAttempts, reconnectDelay,
          connectionPromise,
          heartbeatInterval, pongAge, messageHandlers, statusHandlers,
          sleepers, wsConnected, wsConnecting, messages, isLoading, http,
          wire, srv, used, rag, eng, hist>>

----------------------------------------------------------------------------
(* Bounds of the model and constants of the program.                       *)

MaxSockets == 2                \* sockets one run may create

ChatSockets == 1               \* sockets one run of the chat session may create

FallbackSockets == 3           \* sockets one run of the fallback session may create

MaxQueries == 2                \* queries one run may start

MaxSends == 1                  \* direct sendMessage() calls in one run

MaxChunks == 2                 \* stream chunks one run may deliver

MAX_MESSAGES == 20             \* constants/config.ts:4

MAX_RECONNECT_ATTEMPTS == 5    \* constants/config.ts:16

HEARTBEAT_PERIOD == 30000      \* setInterval period in startHeartbeat

HEARTBEAT_TIMEOUT == 35000     \* pong age beyond which the link is dead

BASE_RECONNECT_DELAY == 1000   \* constants/config.ts:17

MAX_RECONNECT_DELAY == 30000   \* maxDelay of calculateReconnectDelay

JITTER_BOUND == 1000           \* Math.random() * 1000 is below this

MaxBackoffs == 8               \* attempts the backoff policy is computed for

\* Default top_k of a search.
DEFAULT_TOP_K == 5

\* Default similarity threshold of a search, in percent.
DEFAULT_SIMILARITY_THRESHOLD == 70

\* The similarity threshold handleSendMessage passes, in percent.
MANAGER_THRESHOLD == 60

\* Bound: retrievals and generations of one run.
MaxServed == 1

\* Bound: searches of one run.
MaxSearches == 1

\* The top_k by which useChat means no limit.
UNLIMITED_TOP_K == 21

\* Every socket a run can create has an id.
SockSlots == IF MaxSockets > FallbackSockets THEN MaxSockets ELSE FallbackSockets

SockIds == 1 .. SockSlots

\* Values updateConfig may give to maxReconnectAttempts.
ConfigMaxValues == {1}

\* Values updateConfig may give to reconnectDelay, in milliseconds.
ConfigDelayValues == {250, 1000, 3000}

\* Values of Math.random() * 1000, to the millisecond: the ends of the
\* range and some values between.
Jitters == {0, 1, 250, 499, 500, 750, 998, JITTER_BOUND - 1}

----------------------------------------------------------------------------
(* The record of all fields, and its write-back.                           *)

State ==
    [ws |-> ws, sock |-> sock, promise |-> promise, timer |-> timer,
     nsock |-> nsock, status |-> status, shouldReconnect |-> shouldReconnect,
     reconnectAttempts |-> reconnectAttempts,
     maxReconnectAttempts |-> maxReconnectAttempts,
     reconnectDelay |-> reconnectDelay,
     connectionPromise |-> connectionPromise,
     heartbeatInterval |-> heartbeatInterval, pongAge |-> pongAge,
     messageHandlers |-> messageHandlers, statusHandlers |-> statusHandlers,
     sleepers |-> sleepers, wsConnected |-> wsConnected,
     wsConnecting |-> wsConnecting, messages |-> messages,
     isLoading |-> isLoading, http |-> http, wire |-> wire, srv |-> srv,
     used |-> used, rag |-> rag, eng |-> eng, hist |-> hist]

Commit(r) ==
    /\ ws' = r.ws
    /\ sock' = r.sock
    /\ promise' = r.promise
    /\ timer' = r.timer
    /\ nsock' = r.nsock
    /\ status' = r.status
    /\ shouldReconnect' = r.shouldReconnect
    /\ reconnectAttempts' = r.reconnectAttempts
    /\ maxReconnectAttempts' = r.maxReconnectAttempts
    /\ reconnectDelay' = r.reconnectDelay
    /\ connectionPromise' = r.connectionPromise
    /\ heartbeatInterval' = r.heartbeatInterval
    /\ pongAge' = r.pongAge
    /\ messageHandlers' = r.messageHandlers
    /\ statusHandlers' = r.statusHandlers
    /\ sleepers' = r.sleepers
    /\ wsConnected' = r.wsConnected
    /\ wsConnecting' = r.wsConnecting
    /\ messages' = r.messages
    /\ isLoading' = r.isLoading
    /\ http' = r.http
    /\ wire' = r.wire
    /\ srv' = r.srv
    /\ used' = r.used
    /\ rag' = r.rag
    /\ eng' = r.eng
    /\ hist' = r.hist

----------------------------------------------------------------------------
(* Steps of ChatWebSocketManager, each a function on the record.           *)

\* WebSocketProvider's status subscriber (setWsConnected, setWsConnecting).
CtxStatusHandler(r, newStatus) ==
    [r EXCEPT !.wsConnected = (newStatus = "connected"),
              !.wsConnecting = (newStatus = "connecting")]

\* updateStatus(newStatus): assign and notify only when the value changes.
updateStatus(r, newStatus) ==
    IF r.status # newStatus
    THEN LET r1 == [r EXCEPT !.status = newStatus]
         IN  IF "ctx" \in r1.statusHandlers
             THEN CtxStatusHandler(r1, newStatus)
             ELSE r1
    ELSE r

\* isConnected(): this.ws?.readyState === WebSocket.OPEN
isConnected(r) == r.ws # 0 /\ r.sock[r.ws] = "open"

stopHeartbeat(r) == [r EXCEPT !.heartbeatInterval = FALSE]

\* startHeartbeat(): stop the running interval, start a new one.
startHeartbeat(r) == [stopHeartbeat(r) EXCEPT !.heartbeatInterval = TRUE]

\* WebSocket.close() on socket s: an open socket starts the closing
\* handshake, a connecting one fails the connection, any other is unchanged.
socketClose(r, s) ==
    IF s = 0 THEN r
    ELSE IF r.sock[s] = "open" THEN [r EXCEPT !.sock[s] = "closing"]
    ELSE IF r.sock[s] = "connecting" THEN [r EXCEPT !.sock[s] = "failing"]
    ELSE r

\* createWebSocket(), up to the point where the promise is returned: a new
\* socket becomes this.ws and its connect timeout is armed.
createWebSocket(r) ==
    LET s == r.nsock + 1
    IN  [r EXCEPT !.nsock = s, !.ws = s, !.sock[s] = "connecting",
                  !.promise[s] = "pending", !.timer[s] = TRUE]

\* doConnect(), up to `await this.createWebSocket()`.
doConnectBegin(r) ==
    createWebSocket([updateStatus(r, "connecting")
                        EXCEPT !.shouldReconnect = TRUE])

\* The `finally` of doConnect. When the doConnect was awaited by
\* attemptReconnect, which was awaited by the catch block of an enclosing
\* doConnect, the enclosing `finally` blocks run in the same microtask
\* drain and repeat the one assignment.
doConnectFinally(r) == [r EXCEPT !.connectionPromise = FALSE]

\* attemptReconnect() with no attempt left: lines 247-252.
reconnectExhausted(r) ==
    [updateStatus(r, "error") EXCEPT !.shouldReconnect = FALSE,
                                      !.hist.exhausted = TRUE]

Min(a, b) == IF a <= b THEN a ELSE b

\* The linear delay of ChatWebSocket.attemptReconnect (services/websocket.js).
calculateReconnectDelayLinear(r, jitter) ==
    r.reconnectDelay * r.reconnectAttempts

\* calculateReconnectDelay(), with the value Math.random() * 1000 took.
calculateReconnectDelay(r, jitter) ==
    LET baseDelay == r.reconnectDelay * 2 ^ (r.reconnectAttempts - 1)
        maxDelay == MAX_RECONNECT_DELAY
    IN  Min(baseDelay + jitter, maxDelay)

\* attemptReconnect(), up to `await sleep(delay)`. `from` names the code
\* awaiting it: "catch" is the catch block of doConnect, "close" is onclose.
\* With no attempt left it returns at once, and a doConnect awaiting it
\* rethrows and runs its `finally`.
attemptReconnect(r, from) ==
    IF r.reconnectAttempts >= r.maxReconnectAttempts
    THEN IF from = "catch"
         THEN doConnectFinally(reconnectExhausted(r))
         ELSE reconnectExhausted(r)
    ELSE [r EXCEPT !.reconnectAttempts = @ + 1, !.sleepers[from] = @ + 1]

\* A doConnect that keeps the attempt counter when the socket opens.
doConnectSucceedKeepsCount(r) ==
    doConnectFinally(startHeartbeat(updateStatus(r, "connected")))

\* doConnect() after createWebSocket resolved: lines 167-169 and `finally`.
doConnectSucceed(r) ==
    doConnectFinally(
        startHeartbeat(
            updateStatus([r EXCEPT !.reconnectAttempts = 0,
                                   !.hist.exhausted = FALSE], "connected")))

\* doConnect() after createWebSocket rejected: the catch block.
doConnectFail(r) ==
    LET r1 == updateStatus(r, "error")
    IN  IF r1.shouldReconnect
        THEN attemptReconnect(r1, "catch")
        ELSE doConnectFinally(r1)

\* ws.onopen of socket s, and the continuation of doConnect it resolves.
onopen(r, s) ==
    LET r1 == [r EXCEPT !.timer[s] = FALSE, !.pongAge = 0]
    IN  IF r1.promise[s] = "pending"
        THEN doConnectSucceed([r1 EXCEPT !.promise[s] = "settled"])
        ELSE r1

\* ws.onerror of socket s, and the continuation of doConnect it rejects.
onerror(r, s) ==
    LET r1 == [r EXCEPT !.timer[s] = FALSE]
    IN  IF r1.promise[s] = "pending"
        THEN doConnectFail([r1 EXCEPT !.promise[s] = "settled"])
        ELSE r1

\* ws.onclose of socket s.
onclose(r, s, wasClean) ==
    LET r1 == stopHeartbeat([r EXCEPT !.timer[s] = FALSE])
    IN  IF r1.shouldReconnect /\ ~wasClean
        THEN attemptReconnect(updateStatus(r1, "connecting"), "close")
        ELSE updateStatus(r1, "disconnected")

\* The connectTimeout callback of socket s: closes whatever this.ws is now
\* and rejects the promise of s.
connectTimeout(r, s) ==
    LET r1 == socketClose([r EXCEPT !.timer[s] = FALSE], r.ws)
    IN  IF r1.promise[s] = "pending"
        THEN doConnectFail([r1 EXCEPT !.promise[s] = "settled"])
        ELSE r1

\* connect()
connect(r) ==
    IF r.connectionPromise THEN r
    ELSE IF isConnected(r) THEN r
    ELSE [doConnectBegin(r) EXCEPT !.connectionPromise = TRUE]

\* A disconnect that clears the handlers whatever `permanent` is, as
\* ChatWebSocket.disconnect of services/websocket.js does.
disconnectClearsAlways(r, permanent) ==
    LET r1 == IF permanent THEN [r EXCEPT !.shouldReconnect = FALSE] ELSE r
        r2 == [stopHeartbeat(r1) EXCEPT !.connectionPromise = FALSE]
        r3 == IF r2.ws # 0
              THEN [socketClose(r2, r2.ws) EXCEPT !.ws = 0]
              ELSE r2
        r4 == IF permanent THEN updateStatus(r3, "disconnected") ELSE r3
    IN  [r4 EXCEPT !.messageHandlers = {}, !.statusHandlers = {}]

\* disconnect(permanent)
disconnect(r, permanent) ==
    LET r1 == IF permanent THEN [r EXCEPT !.shouldReconnect = FALSE] ELSE r
        r2 == [stopHeartbeat(r1) EXCEPT !.connectionPromise = FALSE]
        r3 == IF r2.ws # 0
              THEN [socketClose(r2, r2.ws) EXCEPT !.ws = 0]
              ELSE r2
    IN  IF permanent
        THEN [updateStatus(r3, "disconnected")
                 EXCEPT !.messageHandlers = {}, !.statusHandlers = {}]
        ELSE r3

\* A reconnect that sleeps and calls connect() without disconnecting first.
reconnectKeepsSocket(r) == [r EXCEPT !.sleepers["reconnect"] = @ + 1]

\* reconnect(), up to `await sleep(1000)`.
reconnect(r) == [disconnect(r, FALSE) EXCEPT !.sleepers["reconnect"] = @ + 1]

----------------------------------------------------------------------------
(* Frames and the stream aggregator of WebSocketProvider.                  *)

\* The texts a stream chunk may carry, as sequences of characters.
ChunkTexts == {<<"H", "e", "l">>, <<"l", "o">>}

\* A frame is the literal 'pong' ([raw |-> "pong"]), a text that is not
\* JSON ([raw |-> "garbage"]) or the JSON text of an envelope
\* ([raw |-> "json", data |-> envelope]). The provider's handler is "ctx":
\* one closure subscribed to status changes, one to messages.

\* An append that keeps the oldest MAX_MESSAGES: slice(0, MAX_MESSAGES).
appendMessageKeepsOldest(prev, m) ==
    LET newMessages == Append(prev, m)
    IN  IF Len(newMessages) > MAX_MESSAGES
        THEN SubSeq(newMessages, 1, MAX_MESSAGES)
        ELSE newMessages

\* [...prev, m] cut to the newest MAX_MESSAGES.
appendMessage(prev, m) ==
    LET newMessages == Append(prev, m)
        n == Len(newMessages)
    IN  IF n > MAX_MESSAGES
        THEN SubSeq(newMessages, n - MAX_MESSAGES + 1, n)
        ELSE newMessages

\* prev with its last message replaced: [...prev.slice(0, -1), m].
replaceLast(prev, m) == Append(SubSeq(prev, 1, Len(prev) - 1), m)

\* filesUsed and modelUsed hold "undefined" where the JavaScript object has
\* no such property or the property is undefined.
UserMessage ==
    [sender |-> "user", text |-> <<"query">>, isStreaming |-> FALSE,
     isError |-> FALSE, tokens |-> FALSE, filesUsed |-> "undefined",
     modelUsed |-> "undefined"]

BotMessage(text, isError) ==
    [sender |-> "bot", text |-> text, isStreaming |-> FALSE,
     isError |-> isError, tokens |-> ~isError, filesUsed |-> "undefined",
     modelUsed |-> "undefined"]

\* The message the stream branch appends to: the last one, when it is a
\* bot message that is still streaming.
OpenStream(msgs) ==
    /\ Len(msgs) > 0
    /\ msgs[Len(msgs)].sender = "bot"
    /\ msgs[Len(msgs)].isStreaming

\* A stream branch that puts the chunk in front of the text.
onStreamPrepends(r, data) ==
    IF OpenStream(r.messages)
    THEN LET lastMessage == r.messages[Len(r.messages)]
         IN  [r EXCEPT !.messages =
                  replaceLast(@, [lastMessage EXCEPT
                                     !.text = data.chunk \o @,
                                     !.filesUsed = data.files_used,
                                     !.modelUsed = data.model_used]),
                       !.hist.feed = Append(@, data.chunk)]
    ELSE [r EXCEPT !.messages =
              appendMessage(@, [sender |-> "bot", text |-> data.chunk,
                                isStreaming |-> TRUE, isError |-> FALSE,
                                tokens |-> FALSE,
                                filesUsed |-> data.files_used,
                                modelUsed |-> data.model_used]),
                   !.hist.feed = <<data.chunk>>]

\* handleWebSocketMessage, branch `stream`.
onStream(r, data) ==
    IF OpenStream(r.messages)
    THEN LET lastMessage == r.messages[Len(r.messages)]
         IN  [r EXCEPT !.messages =
                  replaceLast(@, [lastMessage EXCEPT
                                     !.text = @ \o data.chunk,
                                     !.filesUsed = data.files_used,
                                     !.modelUsed = data.model_used]),
                       !.hist.feed = Append(@, data.chunk)]
    ELSE [r EXCEPT !.messages =
              appendMessage(@, [sender |-> "bot", text |-> data.chunk,
                                isStreaming |-> TRUE, isError |-> FALSE,
                                tokens |-> FALSE,
                                filesUsed |-> data.files_used,
                                modelUsed |-> data.model_used]),
                   !.hist.feed = <<data.chunk>>]

\* handleWebSocketMessage, branch `complete`.
onComplete(r) ==
    LET n == Len(r.messages)
        r1 == IF n > 0 /\ r.messages[n].isStreaming
              THEN [r EXCEPT !.messages =
                       replaceLast(@, [r.messages[n] EXCEPT
                                          !.isStreaming = FALSE,
                                          !.tokens = TRUE])]
              ELSE r
    IN  [r1 EXCEPT !.isLoading = FALSE]

\* handleWebSocketMessage, branches `response` and `error`.
onReply(r, text, isError) ==
    [r EXCEPT !.messages = appendMessage(@, BotMessage(text, isError)),
              !.isLoading = FALSE,
              !.hist.feed = <<>>]

\* A handler that reports an envelope of an unknown type as an error.
handleWebSocketMessageStrict(r, data) ==
    CASE data.type = "status" -> r
      [] data.type = "stream" -> onStream(r, data)
      [] data.type = "complete" -> onComplete(r)
      [] data.type = "response" -> onReply(r, <<"response">>, FALSE)
      [] OTHER -> onReply(r, <<"error">>, TRUE)

\* handleWebSocketMessage(data): an envelope of any other type matches no
\* branch.
handleWebSocketMessage(r, data) ==
    CASE data.type = "status" -> r
      [] data.type = "stream" -> onStream(r, data)
      [] data.type = "complete" -> onComplete(r)
      [] data.type = "response" -> onReply(r, <<"response">>, FALSE)
      [] data.type = "error" -> onReply(r, <<"error">>, TRUE)
      [] OTHER -> r

\* notifyMessageHandlers(data): the provider's handler runs when registered.
notifyMessageHandlers(r, data) ==
    IF "ctx" \in r.messageHandlers
    THEN handleWebSocketMessage(r, data)
    ELSE r

\* The onmessage of ChatWebSocket (services/websocket.js): every frame goes
\* to JSON.parse, which rejects the text 'pong'.
onmessageLegacy(r, frame) ==
    IF frame.raw \in {"pong", "garbage"} THEN r
    ELSE notifyMessageHandlers(r, frame.data)

\* ws.onmessage: 'pong' refreshes lastPongTime; a text JSON.parse rejects
\* is logged in the catch block; anything else goes to the handlers.
onmessage(r, frame) ==
    IF frame.raw = "pong" THEN [r EXCEPT !.pongAge = 0]
    ELSE IF frame.raw = "garbage" THEN r
    ELSE notifyMessageHandlers(r, frame.data)

\* sendMessage() of the manager: throws when the socket is not open,
\* otherwise puts the query on the wire of this.ws.
sendMessage(r) ==
    IF ~isConnected(r)
    THEN [r EXCEPT !.hist.last = "send:NotConnected"]
    ELSE [r EXCEPT !.wire[r.ws] = @ + 1, !.hist.last = "send:sent"]

\* handleSendMessage of the provider, up to its first await.
handleSendMessage(r) ==
    LET r1 == [r EXCEPT !.messages = appendMessage(@, UserMessage),
                        !.isLoading = TRUE,
                        !.hist.feed = <<>>]
    IN  IF isConnected(r1)
        THEN sendMessage(r1)
        ELSE [r1 EXCEPT !.http = @ + 1]

\* handleSendMessage after `await apiSendMessage(...)`: the reply of the
\* fallback, or the catch block when the call threw.
httpSettled(r, outcome) ==
    LET r1 == [r EXCEPT !.http = @ - 1]
    IN  CASE outcome = "ok" -> onReply(r1, <<"response">>, FALSE)
          [] outcome = "failed" -> onReply(r1, <<"response">>, TRUE)
          [] OTHER -> onReply(r1, <<"error">>, TRUE)

\* handleSend of ChatInterface: nothing is sent while isLoading.
handleSend(r) ==
    IF r.isLoading THEN r ELSE handleSendMessage(r)

----------------------------------------------------------------------------
(* The retrieval pipeline: the files the user selects, the query envelope  *)
(* the client builds from them, and what the engine does with it.          *)

\* Names of the files of the corpus.
Docs == {"a", "b", "c"}

\* Cosine similarities of a document to a query, in percent.
Similarities == {65, 70}

\* Values of top_k and of similarity_threshold (in percent) a caller passes.
TopKs == {0, 1, 2, DEFAULT_TOP_K}

Thresholds == {MANAGER_THRESHOLD, DEFAULT_SIMILARITY_THRESHOLD}

\* The corpora a session starts with.
Corpora == {{}, {"a"}, {"a", "b"}, Docs}

\* A list of file names that may also be null; [] is List({}).
NullList == [isNull |-> TRUE, names |-> {}]

List(S) == [isNull |-> FALSE, names |-> S]

FileLists == {NullList} \cup {List(S) : S \in SUBSET Docs}

\* ChatInterface.js: the files handleSend sends for the selection, after
\* listFiles() answered with listing (ok is false when the call failed).
filesToUse(selectedFiles, listing) ==
    IF selectedFiles = {} /\ listing.ok /\ listing.files # {}
    THEN listing.files
    ELSE selectedFiles

\* ChatInterface.js: the selectedFiles argument of chatWebSocket.sendMessage.
handleSendFiles(selectedFiles, listing) ==
    LET files == filesToUse(selectedFiles, listing)
    IN  IF files # {} THEN List(files) ELSE NullList

\* The envelope of sendMessage. In selectedFiles || null every array is
\* truthy, the empty one too, so only undefined and null become null.
envelope(selectedFiles, enableAutoRetrieval, topK, similarityThreshold) ==
    [selected_files |-> IF selectedFiles.isNull THEN NullList
                        ELSE List(selectedFiles.names),
     enable_auto_retrieval |-> enableAutoRetrieval,
     top_k |-> topK,
     similarity_threshold |-> similarityThreshold]

\* The orders in which the documents D can be stored or returned.
Rankings(D) ==
    {s \in [1 .. Cardinality(D) -> D] :
        \A i, j \in 1 .. Cardinality(D) : i # j => s[i] # s[j]}

Pos(s, d) == CHOOSE i \in DOMAIN s : s[i] = d

\* ORDER BY similarity DESC: rows of equal similarity come in the order the
\* database happens to produce them, here the order of heap.
orderBySimilarityDesc(sims, heap) ==
    CHOOSE s \in Rankings(DOMAIN sims) :
        \A i, j \in DOMAIN s : i < j =>
            \/ sims[s[i]] > sims[s[j]]
            \/ sims[s[i]] = sims[s[j]] /\ Pos(heap, s[i]) < Pos(heap, s[j])

limit(s, k) == SubSeq(s, 1, Min(k, Len(s)))

\* A search that returns the rows of the database unfiltered.
search_similar_documentsUnfiltered(sims, heap, top_k, similarity_threshold) ==
    LET results == limit(orderBySimilarityDesc(sims, heap), top_k)
    IN  [i \in DOMAIN results |-> [doc |-> results[i], sim |-> sims[results[i]]]]

\* DocumentService.search_similar_documents: sims is the similarity of each
\* document with an embedding to the query.
search_similar_documents(sims, heap, top_k, similarity_threshold) ==
    LET results == limit(orderBySimilarityDesc(sims, heap), top_k)
        filtered_results ==
            SelectSeq(results, LAMBDA d : sims[d] >= similarity_threshold)
    IN  [i \in DOMAIN filtered_results |->
            [doc |-> filtered_results[i], sim |-> sims[filtered_results[i]]]]

Names(results) == {results[i].doc : i \in DOMAIN results}

\* A query that looks for similar documents whatever it was given.
queryRetrieves(g, selected_file_names) ==
    [g EXCEPT !.attached = selected_file_names \cap g.files,
              !.embedCalls = @ + 1,
              !.searchCalls = @ + 1,
              !.generated = @ + 1]

\* RAGService.query: attaches the selected files that exist, then generates.
query(g, selected_file_names) ==
    [g EXCEPT !.attached = IF selected_file_names # {}
                           THEN selected_file_names \cap g.files
                           ELSE {},
              !.generated = @ + 1]

\* The engine's choice for an envelope: the files of the list when it names
\* any, otherwise the documents similar to the query.
RetrievalMode(env) ==
    IF ~env.selected_files.isNull /\ env.selected_files.names # {}
    THEN "manual"
    ELSE IF env.enable_auto_retrieval THEN "automatic" ELSE "plain"

\* Automatic retrieval: one embedding of the query and one search.
retrieve(g, env, sims, heap) ==
    [g EXCEPT !.results = search_similar_documents(sims, heap, env.top_k,
                                                   env.similarity_threshold),
              !.top_k = env.top_k,
              !.threshold = env.similarity_threshold,
              !.embedCalls = @ + 1,
              !.searchCalls = @ + 1]

\* The chat endpoint for one envelope.
chat(g, env, sims, heap) ==
    LET mode == RetrievalMode(env)
        g1 == [g EXCEPT !.mode = mode, !.envelope = Tail(@)]
    IN  IF mode = "manual" THEN query(g1, env.selected_files.names)
        ELSE IF mode = "automatic"
             THEN LET g2 == retrieve(g1, env, sims, heap)
                  IN  query(g2, Names(g2.results))
             ELSE query(g1, {})

\* The id of a document: the serial primary key of its row.
DocId == [d \in Docs |-> CASE d = "a" -> 1 [] d = "b" -> 2 [] OTHER -> 3]

\* An optional top_k: {} when the request leaves it out, {k} otherwise.
RequestTopKs == {{}} \cup {{k} : k \in TopKs}

\* top_k of search_similar_documents: its default when the caller gives none.
topKOrDefault(top_k) ==
    IF top_k = {} THEN DEFAULT_TOP_K ELSE CHOOSE k \in top_k : TRUE

\* What may go wrong in a search: the embedding call or the database query.
Faults == {"none", "embedding", "database"}

\* search_similar_documents with its except branches: an embedding failure
\* is raised as it is, any other failure as DatabaseError.
searchOrRaise(fault, sims, heap, top_k, similarity_threshold) ==
    CASE fault = "embedding" -> [raised |-> "EmbeddingError", results |-> <<>>]
      [] fault = "database" -> [raised |-> "DatabaseError", results |-> <<>>]
      [] OTHER -> [raised |-> "none",
                   results |-> search_similar_documents(
                       sims, heap, topKOrDefault(top_k), similarity_threshold)]

\* setTopK of useChat: the value is clamped to 1 .. 21.
clampTopK(value) ==
    IF value < 1 THEN 1 ELSE IF value > UNLIMITED_TOP_K THEN UNLIMITED_TOP_K ELSE value

\* top_k of the request useChat sends: 21 stands for unlimited and is left out.
requestTopK(topK) == IF topK = UNLIMITED_TOP_K THEN {} ELSE {topK}

\* handleSearchFiles of useChat after the call settled: the results are shown
\* and selected, or the catch block empties the list.
searchSettled(g, found) ==
    IF found.raised = "none"
    THEN [g EXCEPT !.searchResults = Names(found.results),
                   !.selectedFiles = Names(found.results)]
    ELSE [g EXCEPT !.searchResults = {}]

InitRag ==
    [files |-> {},
     selectedFiles |-> {},
     searchResults |-> {},
     chosen |-> NullList,
     envelope |-> <<>>,
     mode |-> "none",
     attached |-> {},
     results |-> <<>>,
     top_k |-> DEFAULT_TOP_K,
     threshold |-> DEFAULT_SIMILARITY_THRESHOLD,
     embedCalls |-> 0,
     searchCalls |-> 0,
     generated |-> 0]

\* A system prompt is a sequence of pieces as Python's str.format reads them:
\* plain text, the placeholder {query}, a placeholder of another name, a
\* single brace without its partner and the escape {{ of a brace.
Pieces == {"text", "{query}", "{name}", "{", "{{"}

MaxTemplate == 2

Templates == UNION {[1 .. n -> Pieces] : n \in 0 .. MaxTemplate}

Queries == {"Q", "R"}

default_system_prompt == <<"text", "{query}", "text">>

\* str.format(query=q): text stays, {query} becomes q, {{ becomes one brace,
\* another field raises KeyError, a single brace raises ValueError.  The
\* first piece that raises decides the exception.
RECURSIVE format(_, _)
format(template, q) ==
    IF template = <<>> THEN [raised |-> "none", text |-> <<>>]
    ELSE LET piece == Head(template)
             rest == format(Tail(template), q)
         IN CASE piece = "{name}" -> [raised |-> "KeyError", text |-> <<>>]
              [] piece = "{" -> [raised |-> "ValueError", text |-> <<>>]
              [] rest.raised # "none" -> rest
              [] piece = "{query}" ->
                    [raised |-> "none", text |-> <<q>> \o rest.text]
              [] piece = "{{" ->
                    [raised |-> "none", text |-> <<"{">> \o rest.text]
              [] OTHER ->
                    [raised |-> "none", text |-> <<piece>> \o rest.text]

\* validateSystemPrompt: an empty prompt is invalid; a prompt without {query}
\* or with double braces is valid and only draws a warning.
validateSystemPrompt(prompt) ==
    IF prompt = <<>>
    THEN [isValid |-> FALSE, warnings |-> {}]
    ELSE [isValid |-> TRUE,
          warnings |->
              (IF \A i \in DOMAIN prompt : prompt[i] # "{query}"
               THEN {"placeholder"} ELSE {})
              \cup (IF \E i \in DOMAIN prompt : prompt[i] = "{{"
                    THEN {"braces"} ELSE {})]

DEFAULT_MODEL == "gemini-1.5-flash"

available_model_ids == {"gemini-1.5-flash", "gemini-1.5-pro"}

ModelNames == available_model_ids \cup {"", "gpt-4"}

NoAnswer ==
    [asked |-> FALSE, model_name |-> "", raised |-> "none", message |-> {}, success |-> FALSE,
     prompt |-> <<>>, query |-> "", generateCalls |-> 0]

\* RAGService.query without the files: the model is validated before the
\* try block, the prompt is formatted and generate_content is called inside
\* it, and every exception inside it becomes a result with success False.
queryResult(model_name, system_prompt, q, generationFails) ==
    LET name == IF model_name = "" THEN DEFAULT_MODEL ELSE model_name
        final_prompt == IF system_prompt # <<>> THEN system_prompt
                        ELSE default_system_prompt
        formatted == format(final_prompt, q)
    IN IF name \notin available_model_ids
       THEN [asked |-> TRUE, model_name |-> name, raised |-> "ModelValidationError",
             message |-> {name} \cup available_model_ids,
             success |-> FALSE, prompt |-> <<>>, query |-> q,
             generateCalls |-> 0]
       ELSE IF formatted.raised # "none"
       THEN [asked |-> TRUE, model_name |-> name, raised |-> "none",
             message |-> {formatted.raised}, success |-> FALSE,
             prompt |-> <<>>, query |-> q, generateCalls |-> 0]
       ELSE [asked |-> TRUE, model_name |-> name, raised |-> "none",
             message |-> IF generationFails THEN {"generation"} ELSE {},
             success |-> ~generationFails, prompt |-> formatted.text,
             query |-> q, generateCalls |-> 1]

\* What the model's response stream holds for the generator's loop: a chunk
\* with text, a chunk whose text is empty, or the point where iterating the
\* stream raises.
StreamItems == {"t", "", "fail"}

MaxStream == 3

MaxStreams == 1

Sources == UNION {[1 .. n -> StreamItems] : n \in 0 .. MaxStream}

StreamPrompts == {<<>>, <<"text">>, <<"{name}">>}

NoGenerator ==
    [pc |-> "idle", streams |-> 0, model_name |-> "", system_prompt |-> <<>>,
     query |-> "", source |-> <<>>, events |-> <<>>, generateCalls |-> 0,
     failed |-> FALSE]

\* Calling query_stream only creates the generator; its body runs on next().
query_stream(gen, model_name, system_prompt, q, source) ==
    [pc |-> "created", streams |-> gen.streams + 1,
     model_name |-> model_name, system_prompt |-> system_prompt,
     query |-> q, source |-> source, events |-> <<>>, generateCalls |-> 0,
     failed |-> FALSE]

yield(gen, event, pc) ==
    [gen EXCEPT !.events = Append(@, event), !.pc = pc]

RECURSIVE dropEmpty(_)
dropEmpty(source) ==
    IF source # <<>> /\ Head(source) = "" THEN dropEmpty(Tail(source))
    ELSE source

\* The variant whose except branch falls through to the completion event.
forChunkCompletesAfterError(gen) ==
    LET source == dropEmpty(gen.source)
    IN CASE source = <<>> ->
              yield([gen EXCEPT !.source = <<>>],
                    [type |-> "complete", message |-> {}], "done")
         [] Head(source) = "fail" ->
              yield([gen EXCEPT !.source = Tail(source), !.failed = TRUE],
                    [type |-> "error", message |-> {"stream"}], "running")
         [] OTHER ->
              yield([gen EXCEPT !.source = Tail(source)],
                    [type |-> "chunk", message |-> {}], "running")

\* The loop over response_stream up to its next yield: chunks without text
\* are passed over, a chunk with text is yielded, the end of the stream
\* yields the completion event, and an exception raised by the stream is
\* caught by the except branch, which yields an error event and ends.
forChunk(gen) ==
    LET source == dropEmpty(gen.source)
    IN CASE source = <<>> ->
              yield([gen EXCEPT !.source = <<>>],
                    [type |-> "complete", message |-> {}], "done")
         [] Head(source) = "fail" ->
              yield([gen EXCEPT !.source = Tail(source), !.failed = TRUE],
                    [type |-> "error", message |-> {"stream"}], "done")
         [] OTHER ->
              yield([gen EXCEPT !.source = Tail(source)],
                    [type |-> "chunk", message |-> {}], "running")

\* One next() on the generator: from its start the model is validated (an
\* unknown model yields an error event naming it and returns), the prompt is
\* formatted and generate_content(stream=True) is called; then the loop runs.
next(gen) ==
    LET name == IF gen.model_name = "" THEN DEFAULT_MODEL ELSE gen.model_name
        final_prompt == IF gen.system_prompt # <<>> THEN gen.system_prompt
                        ELSE default_system_prompt
        formatted == format(final_prompt, gen.query)
    IN IF gen.pc = "running" THEN forChunk(gen)
       ELSE IF name \notin available_model_ids
       THEN yield([gen EXCEPT !.failed = TRUE],
                  [type |-> "error", message |-> {name}], "done")
       ELSE IF formatted.raised # "none"
       THEN yield([gen EXCEPT !.failed = TRUE],
                  [type |-> "error", message |-> {formatted.raised}], "done")
       ELSE forChunk([gen EXCEPT !.generateCalls = @ + 1])

\* The HTTP chat path: POST /api/chat, wrapped by the client in
\* retryWithBackoff, handled by the chat router in the order query,
\* log_query, response.
MAX_RETRIES == 3

MaxAsks == 1

NoChat ==
    [pc |-> "idle", asks |-> 0, attempts |-> 0, generateCalls |-> 0,
     success |-> FALSE, dbDown |-> FALSE, logRaised |-> FALSE,
     log |-> <<>>, response |-> "none"]

\* ApiClient.sendMessage issues the first request of a user query.
apiSendMessage(call) ==
    [call EXCEPT !.pc = "request", !.asks = @ + 1, !.attempts = 1,
                 !.response = "none"]

\* The router calls RAGService.query: one generate_content call, whose
\* failure becomes a result with success False.
chatQuery(call, generationFails, dbDown) ==
    [call EXCEPT !.pc = "logging", !.generateCalls = @ + 1,
                 !.success = ~generationFails, !.dbDown = dbDown,
                 !.logRaised = FALSE]

\* log_query: add, commit and refresh one entry; on any exception roll back
\* and raise DatabaseError, leaving no entry.
log_query(call) ==
    IF call.dbDown
    THEN [call EXCEPT !.pc = "logged", !.logRaised = TRUE]
    ELSE [call EXCEPT !.pc = "logged",
                      !.log = Append(@, [ask |-> call.asks,
                                         success |-> call.success])]

\* The router answers only after log_query has returned or raised.
CanRespond(call) == call.pc = "logged"

\* The variant that gives up after the first rejected request.
retryWithBackoffOnce(call, maxRetries) ==
    [call EXCEPT !.pc = "done", !.response = "failed"]

\* retryWithBackoff(fn, 3, 1000): a rejected request is issued again, up to
\* maxRetries times, and the last rejection is passed on.
retryWithBackoff(call, maxRetries) ==
    IF call.attempts <= maxRetries
    THEN [call EXCEPT !.pc = "request", !.attempts = @ + 1]
    ELSE [call EXCEPT !.pc = "done", !.response = "failed"]

\* The answer reaches the client, or the request is rejected (time-out after
\* 30 s, network error, error status) and goes back to retryWithBackoff.
chatSettled(call, outcome) ==
    IF outcome = "reply"
    THEN [call EXCEPT !.pc = "done",
                      !.response = IF call.success THEN "ok" ELSE "error"]
    ELSE retryWithBackoff(call, MAX_RETRIES)

\* The variant of RAGService.query that passes over files it cannot fetch.
queryOrFailSkipsFiles(g, selected_file_names, fileFault) ==
    IF selected_file_names # {} /\ fileFault
    THEN [success |-> TRUE, g |-> query(g, {})]
    ELSE [success |-> TRUE, g |-> query(g, selected_file_names)]

\* RAGService.query with its except branch: list_files and get_file run
\* inside the try block, so a failure to fetch the selected files ends the
\* query with success False before generate_content is called.
queryOrFail(g, selected_file_names, fileFault) ==
    IF selected_file_names # {} /\ fileFault
    THEN [success |-> FALSE, g |-> [g EXCEPT !.attached = {}]]
    ELSE [success |-> TRUE, g |-> query(g, selected_file_names)]

\* Automatic retrieval in the chat endpoint: a search that raised leaves
\* the query without documents instead of failing it.
retrieveOrDegrade(g, env, fault, sims, heap) ==
    LET found == searchOrRaise(fault, sims, heap, {env.top_k},
                               env.similarity_threshold)
    IN  [g EXCEPT !.results = found.results,
                  !.top_k = env.top_k,
                  !.threshold = env.similarity_threshold,
                  !.embedCalls = @ + 1,
                  !.searchCalls = IF fault = "embedding" THEN @ ELSE @ + 1]

NoServe ==
    [served |-> 0, raised |-> "none", fileFault |-> FALSE, success |-> FALSE,
     generated |-> FALSE]

\* The chat endpoint for one envelope, with the failures of its calls.
chatOrDegrade(r, env, fault, fileFault, sims, heap) ==
    LET mode == RetrievalMode(env)
        g1 == [r.rag EXCEPT !.mode = mode]
        g2 == IF mode = "automatic"
              THEN retrieveOrDegrade(g1, env, fault, sims, heap)
              ELSE g1
        names == CASE mode = "manual" -> env.selected_files.names
                   [] mode = "automatic" -> Names(g2.results)
                   [] OTHER -> {}
        answer == queryOrFail(g2, names, fileFault)
    IN  [r EXCEPT !.rag = answer.g,
                  !.eng.serve = [served |-> @.served + 1,
                                 raised |-> IF mode = "automatic"
                                            THEN IF fault = "embedding"
                                                 THEN "EmbeddingError"
                                                 ELSE IF fault = "database"
                                                 THEN "DatabaseError"
                                                 ELSE "none"
                                            ELSE "none",
                                 fileFault |-> fileFault,
                                 success |-> answer.success,
                                 generated |->
                                     answer.g.generated > r.rag.generated]]

\* setSimilarityThreshold of useChat: the value is clamped to 0 .. 1, here
\* in percent.
clampThreshold(value) ==
    IF value < 0 THEN 0 ELSE IF value > 100 THEN 100 ELSE value

InitEng ==
    [topK |-> DEFAULT_TOP_K,
     searches |-> 0,
     sims |-> <<>>,
     heap |-> <<>>,
     top_k |-> {},
     raised |-> "none",
     systemPrompt |-> default_system_prompt,
     answer |-> NoAnswer,
     gen |-> NoGenerator,
     chat |-> NoChat,
     serve |-> NoServe,
     similarityThreshold |-> DEFAULT_SIMILARITY_THRESHOLD,
     passed |-> [top_k |-> {}, similarity_threshold |-> {}]]

----------------------------------------------------------------------------
(* Initial state: the singleton `new ChatWebSocketManager()` and the       *)
(* provider's useState initial values.                                     *)

NoSleepers == [catch |-> 0, close |-> 0, reconnect |-> 0]

InitState ==
    [ws |-> 0,
     sock |-> [s \in SockIds |-> "none"],
     promise |-> [s \in SockIds |-> "none"],
     timer |-> [s \in SockIds |-> FALSE],
     nsock |-> 0,
     status |-> "disconnected",
     shouldReconnect |-> TRUE,
     reconnectAttempts |-> 0,
     maxReconnectAttempts |-> MAX_RECONNECT_ATTEMPTS,
     reconnectDelay |-> BASE_RECONNECT_DELAY,
     connectionPromise |-> FALSE,
     heartbeatInterval |-> FALSE,
     pongAge |-> 0,
     messageHandlers |-> {},
     statusHandlers |-> {},
     sleepers |-> NoSleepers,
     wsConnected |-> FALSE,
     wsConnecting |-> FALSE,
     messages |-> <<>>,
     isLoading |-> FALSE,
     http |-> 0,
     wire |-> [s \in SockIds |-> 0],
     srv |-> [s \in SockIds |-> "idle"],
     used |-> [queries |-> 0, chunks |-> 0],
     rag |-> InitRag,
     eng |-> InitEng,
     hist |-> [last |-> "init", exhausted |-> FALSE, permanent |-> FALSE, feed |-> <<>>, delay |-> 0, jitter |-> 0,
               dispatch |-> [called |-> {}, threw |-> {}, escaped |-> FALSE]]]

\* The state whose fields are those of the record r.
Start(r) ==
    /\ ws = r.ws
    /\ sock = r.sock
    /\ promise = r.promise
    /\ timer = r.timer
    /\ nsock = r.nsock
    /\ status = r.status
    /\ shouldReconnect = r.shouldReconnect
    /\ reconnectAttempts = r.reconnectAttempts
    /\ maxReconnectAttempts = r.maxReconnectAttempts
    /\ reconnectDelay = r.reconnectDelay
    /\ connectionPromise = r.connectionPromise
    /\ heartbeatInterval = r.heartbeatInterval
    /\ pongAge = r.pongAge
    /\ messageHandlers = r.messageHandlers
    /\ statusHandlers = r.statusHandlers
    /\ sleepers = r.sleepers
    /\ wsConnected = r.wsConnected
    /\ wsConnecting = r.wsConnecting
    /\ messages = r.messages
    /\ isLoading = r.isLoading
    /\ http = r.http
    /\ wire = r.wire
    /\ srv = r.srv
    /\ used = r.used
    /\ rag = r.rag
    /\ eng = r.eng
    /\ hist = r.hist

Init == Start(InitState)

\* The record after a handler, tagged with the handler's name.
Did(r, name) == [r EXCEPT !.hist.last = name]

\* A new socket can still be created within the bound.
CanCreate == nsock < SockSlots

----------------------------------------------------------------------------
(* Calls made by the client of the manager.                                *)

\* connect() called by the client. The step is named apart when the
\* reconnect attempts were used up before the call.
Connect ==
    /\ CanCreate
    /\ Commit(Did([connect(State) EXCEPT !.hist.permanent = FALSE,
                                         !.hist.exhausted = FALSE],
                  IF hist.exhausted THEN "connect:exhausted" ELSE "connect"))

\* disconnect() called by the client: permanent defaults to true.
Disconnect ==
    /\ Commit(Did([disconnect(State, TRUE) EXCEPT !.hist.permanent = TRUE,
                                                   !.hist.exhausted = FALSE],
                  "disconnect"))

\* A WebSocketProvider mounts: its state starts from the useState initial
\* values, and its effects subscribe to status changes and to messages and
\* then call connect().
mount(r) ==
    LET r1 == [r EXCEPT !.statusHandlers = @ \cup {"ctx"},
                        !.messageHandlers = @ \cup {"ctx"},
                        !.wsConnected = FALSE,
                        !.wsConnecting = FALSE,
                        !.messages = <<>>,
                        !.isLoading = FALSE,
                        !.http = 0,
                        !.hist.feed = <<>>]
    IN  [connect(r1) EXCEPT !.hist.permanent = FALSE,
                            !.hist.exhausted = FALSE]

Mount ==
    /\ CanCreate
    /\ "ctx" \notin statusHandlers \/ "ctx" \notin messageHandlers
    /\ Commit(Did(mount(State), "mount"))

\* updateConfig({maxReconnectAttempts: m})
UpdateConfigMax(m) ==
    /\ maxReconnectAttempts # m
    /\ Commit(Did([State EXCEPT !.maxReconnectAttempts = m], "updateConfig"))

\* updateConfig({wsUrl: u}) with a url other than the current one.
UpdateConfigUrl ==
    /\ isConnected(State)
    /\ Commit(Did(reconnect(State), "updateConfigUrl"))

----------------------------------------------------------------------------
(* Socket events. The browser reports a failed or aborted connection       *)
(* attempt as an error event followed by a close event that is not clean,  *)
(* fired from one task.                                                    *)

SocketOpen(s) ==
    /\ sock[s] = "connecting"
    /\ Commit(Did(onopen([State EXCEPT !.sock[s] = "open"], s), "onopen"))

SocketFail(s) ==
    /\ sock[s] \in {"connecting", "failing"}
    /\ LET r0 == [State EXCEPT !.sock[s] = "closed"]
       IN  Commit(Did(onclose(onerror(r0, s), s, FALSE), "onfail"))

\* An established connection is lost, or its closing handshake is not
\* answered: error is optional and changes nothing after the promise is
\* settled.
SocketDrop(s) ==
    /\ sock[s] \in {"open", "closing"}
    /\ LET r0 == [State EXCEPT !.sock[s] = "closed"]
       IN  Commit(Did(onclose(onerror(r0, s), s, FALSE), "ondrop"))

\* The closing handshake completes: started by the server on an open
\* socket, or by close(1000) of the client.
SocketClean(s) ==
    /\ sock[s] \in {"open", "closing"}
    /\ LET r0 == [State EXCEPT !.sock[s] = "closed"]
       IN  Commit(Did(onclose(r0, s, TRUE), "onclean"))

\* The literal frame 'pong' arrives on the current socket in answer to a
\* ping: onmessage refreshes lastPongTime and returns.
Pong ==
    /\ isConnected(State)
    /\ pongAge > 0
    /\ Commit(Did(onmessage(State, [raw |-> "pong"]), "pong"))

----------------------------------------------------------------------------
(* Timers.                                                                 *)

ConnectTimeout(s) ==
    /\ timer[s]
    /\ Commit(Did(connectTimeout(State, s), "connectTimeout"))

\* At a heartbeat tick the time since lastPongTime lies in
\* (pongAge * period, (pongAge + 1) * period].
MayTimeOut == (pongAge + 1) * HEARTBEAT_PERIOD > HEARTBEAT_TIMEOUT

MayNotTimeOut == pongAge * HEARTBEAT_PERIOD < HEARTBEAT_TIMEOUT

\* The interval callback finds the pong too old and calls reconnect().
HeartbeatTimeout ==
    /\ heartbeatInterval
    /\ isConnected(State)
    /\ MayTimeOut
    /\ Commit(Did(reconnect(State), "heartbeatTimeout"))

\* The interval callback sends 'ping'.
HeartbeatPing ==
    /\ heartbeatInterval
    /\ isConnected(State)
    /\ MayNotTimeOut
    /\ Commit(Did([State EXCEPT !.pongAge = @ + 1], "heartbeatPing"))

\* attemptReconnect() after `await sleep(delay)`.
WakeAttempt(from) ==
    /\ sleepers[from] > 0
    /\ shouldReconnect => CanCreate
    /\ LET r1 == [State EXCEPT !.sleepers[from] = @ - 1]
       IN  Commit(Did(IF r1.shouldReconnect THEN doConnectBegin(r1)
                      ELSE IF from = "catch" THEN doConnectFinally(r1)
                      ELSE r1,
                      "wakeAttempt"))

\* reconnect() after `await sleep(1000)`: return this.connect().
WakeReconnect ==
    /\ sleepers["reconnect"] > 0
    /\ CanCreate
    /\ Commit(Did(connect([State EXCEPT !.sleepers["reconnect"] = @ - 1]),
                  "wakeReconnect"))

----------------------------------------------------------------------------
(* The chat session: the user, the HTTP fallback and the server.           *)

\* sendMessage() of the manager called by a client.
SendMessage ==
    /\ used.queries < MaxSends
    /\ Commit([sendMessage(State) EXCEPT !.used.queries = @ + 1])

\* The user presses send.
StartQuery ==
    /\ used.queries < MaxQueries
    /\ Commit(Did([handleSend(State) EXCEPT !.used.queries = @ + 1],
                  IF isLoading THEN "send:rejected" ELSE "send:accepted"))

\* The user clears the chat.
ClearMessages ==
    /\ messages # <<>>
    /\ Commit(Did([State EXCEPT !.messages = <<>>, !.hist.feed = <<>>],
                  "clear"))

HttpSettled(outcome) ==
    /\ http > 0
    /\ Commit(Did(httpSettled(State, outcome), "http"))

Json(data) == [raw |-> "json", data |-> data]

\* The server reads the next query of the session and reports that it is
\* working on it.
ServerStatus(s) ==
    /\ srv[s] = "idle"
    /\ wire[s] > 0
    /\ sock[s] = "open"
    /\ Commit(Did(onmessage([State EXCEPT !.wire[s] = @ - 1,
                                          !.srv[s] = "working"],
                            Json([type |-> "status"])),
                  "frame:status"))

\* The metadata fields of a stream envelope.
MetaFields == {"files_used", "model_used"}

\* A stream envelope with the text c that carries the metadata fields in
\* `present` and lacks the others.
StreamEnvelope(c, present) ==
    [type |-> "stream", chunk |-> c,
     files_used |-> IF "files_used" \in present THEN "1" ELSE "undefined",
     model_used |-> IF "model_used" \in present THEN "gemini"
                    ELSE "undefined"]

\* The server sends a chunk of the answer that carries the metadata
\* fields in `present`.
ServerChunkMeta(s, c, present) ==
    /\ srv[s] \in {"working", "streaming"}
    /\ used.chunks < MaxChunks
    /\ sock[s] = "open"
    /\ Commit(Did(onmessage([State EXCEPT !.srv[s] = "streaming",
                                          !.used.chunks = @ + 1],
                            Json(StreamEnvelope(c, present))),
                  "frame:stream"))

\* The generator yields a chunk of the answer: it carries both fields.
ServerChunk(s, c) == ServerChunkMeta(s, c, MetaFields)

\* The envelope query_stream yields for a piece of the answer.
EngineChunkEnvelope(c) ==
    [type |-> "chunk", text |-> c, model_used |-> "gemini",
     files_used |-> "1"]

\* The envelope of query_stream reaches the client as it was yielded.
EngineChunk(s, c) ==
    /\ srv[s] \in {"working", "streaming"}
    /\ used.chunks < MaxChunks
    /\ sock[s] = "open"
    /\ Commit(Did(onmessage([State EXCEPT !.srv[s] = "streaming",
                                          !.used.chunks = @ + 1],
                            Json(EngineChunkEnvelope(c))),
                  "frame:chunk"))

\* The generator ends: `complete` after the last chunk.
ServerComplete(s) ==
    /\ srv[s] \in {"working", "streaming"}
    /\ sock[s] = "open"
    /\ Commit(Did(onmessage([State EXCEPT !.srv[s] = "idle"],
                            Json([type |-> "complete"])),
                  "frame:complete"))

\* The generator raises: `error`, before or after chunks.
ServerError(s) ==
    /\ srv[s] \in {"working", "streaming"}
    /\ sock[s] = "open"
    /\ Commit(Did(onmessage([State EXCEPT !.srv[s] = "idle"],
                            Json([type |-> "error"])),
                  "frame:error"))

\* The query is answered without streaming: `response`.
ServerResponse(s) ==
    /\ srv[s] = "working"
    /\ sock[s] = "open"
    /\ Commit(Did(onmessage([State EXCEPT !.srv[s] = "idle"],
                            Json([type |-> "response"])),
                  "frame:response"))

\* A frame that is not JSON, or an envelope of a type the provider does not
\* know, arrives at any time.
ServerJunk(s, f) ==
    /\ sock[s] = "open"
    /\ Commit(Did(onmessage(State, f), "frame:junk"))

JunkFrames == {[raw |-> "garbage"], Json([type |-> "chunk"])}

----------------------------------------------------------------------------

Next ==
    \/ Connect /\ nsock < MaxSockets
    \/ Disconnect
    \/ Mount /\ nsock < MaxSockets
    \/ \E m \in ConfigMaxValues : UpdateConfigMax(m)
    \/ UpdateConfigUrl
    \/ \E s \in SockIds : SocketOpen(s)
    \/ \E s \in SockIds : SocketFail(s)
    \/ \E s \in SockIds : SocketDrop(s)
    \/ \E s \in SockIds : SocketClean(s)
    \/ Pong
    \/ \E s \in SockIds : ConnectTimeout(s)
    \/ HeartbeatTimeout
    \/ HeartbeatPing
    \/ \E from \in {"catch", "close"} :
          WakeAttempt(from) /\ (shouldReconnect => nsock < MaxSockets)
    \/ WakeReconnect /\ nsock < MaxSockets
    \/ SendMessage

Spec == Init /\ [][Next]_vars

----------------------------------------------------------------------------
(* The backoff policy: the delays attemptReconnect computes for attempts   *)
(* 1, 2, ... under every base delay updateConfig may set.                  *)

\* updateConfig({reconnectDelay: d})
UpdateConfigDelay(d) ==
    /\ reconnectDelay # d
    /\ Commit(Did([State EXCEPT !.reconnectDelay = d], "updateConfig"))

\* attemptReconnect(): lines 254-255, `this.reconnectAttempts++` and the
\* delay computed for that attempt.
Backoff(jitter) ==
    /\ reconnectAttempts < MaxBackoffs
    /\ LET r1 == [State EXCEPT !.reconnectAttempts = @ + 1]
       IN  Commit(Did([r1 EXCEPT
                          !.hist.delay = calculateReconnectDelay(r1, jitter),
                          !.hist.jitter = jitter],
                      "delay"))

\* A connection succeeds: doConnect resets the counter (line 167).
BackoffReset ==
    /\ reconnectAttempts > 0
    /\ Commit(Did([State EXCEPT !.reconnectAttempts = 0], "reset"))

NextDelay ==
    \/ \E d \in ConfigDelayValues : UpdateConfigDelay(d)
    \/ \E jitter \in Jitters : Backoff(jitter)
    \/ BackoffReset

SpecDelay == Init /\ [][NextDelay]_vars

\* The chat session over the sockets of one provider.
NextChat ==
    \/ Mount /\ nsock' <= ChatSockets
    \/ Disconnect
    \/ \E s \in SockIds : SocketOpen(s)
    \/ \E s \in SockIds : SocketFail(s)
    \/ \E s \in SockIds : SocketDrop(s)
    \/ \E s \in SockIds : SocketClean(s)
    \/ \E from \in {"catch", "close"} : WakeAttempt(from) /\ nsock' <= ChatSockets
    \/ StartQuery
    \/ ClearMessages
    \/ \E outcome \in {"ok", "failed", "threw"} : HttpSettled(outcome)
    \/ \E s \in SockIds : ServerStatus(s)
    \/ \E s \in SockIds, c \in ChunkTexts : ServerChunk(s, c)
    \/ \E s \in SockIds : ServerComplete(s)
    \/ \E s \in SockIds : ServerError(s)
    \/ \E s \in SockIds : ServerResponse(s)
    \/ \E s \in SockIds, f \in JunkFrames : ServerJunk(s, f)

SpecChat == Init /\ [][NextChat]_vars

----------------------------------------------------------------------------
(* The message history as a window: a session that already holds a long    *)
(* history, over an open socket or after the server closed the socket.     *)

\* A history of k messages left by k / 2 earlier queries and their replies,
\* message i carrying the text <<i>>.
Prefill(k) ==
    [i \in 1 .. k |->
        IF i % 2 = 1
        THEN [UserMessage EXCEPT !.text = <<ToString(i)>>]
        ELSE BotMessage(<<ToString(i)>>, FALSE)]

\* Lengths of the history the window starts from.
WindowFill == {MAX_MESSAGES - 2, MAX_MESSAGES}

\* The session after the provider mounted and its socket opened.
SessionOpen == onopen([mount(InitState) EXCEPT !.sock[1] = "open"], 1)

\* The same session after the server closed the socket cleanly.
SessionClosed == onclose([SessionOpen EXCEPT !.sock[1] = "closed"], 1, TRUE)

InitWindow ==
    \E r \in {SessionOpen, SessionClosed}, k \in WindowFill :
        Start([r EXCEPT !.messages = Prefill(k)])

NextWindow ==
    \/ StartQuery
    \/ ClearMessages
    \/ \E outcome \in {"ok", "failed", "threw"} : HttpSettled(outcome)
    \/ \E s \in SockIds : ServerStatus(s)
    \/ \E s \in SockIds, c \in ChunkTexts : ServerChunk(s, c)
    \/ \E s \in SockIds : ServerComplete(s)
    \/ \E s \in SockIds : ServerError(s)
    \/ \E s \in SockIds : ServerResponse(s)
    \/ \E s \in SockIds, f \in JunkFrames : ServerJunk(s, f)

SpecWindow == InitWindow /\ [][NextWindow]_vars

----------------------------------------------------------------------------
(* The provider over a link that fails until the attempts are used up: the *)
(* transport of one provider, the user's queries and the HTTP fallback.    *)

NextFallback ==
    \/ Mount
    \/ \E m \in ConfigMaxValues : UpdateConfigMax(m)
    \/ \E s \in SockIds : SocketOpen(s)
    \/ \E s \in SockIds : SocketFail(s)
    \/ \E s \in SockIds : SocketDrop(s)
    \/ \E from \in {"catch", "close"} : WakeAttempt(from)
    \/ StartQuery
    \/ \E outcome \in {"ok", "failed", "threw"} : HttpSettled(outcome)
    \/ \E s \in SockIds : ServerStatus(s)
    \/ \E s \in SockIds : ServerResponse(s)

SpecFallback == Init /\ [][NextFallback]_vars

----------------------------------------------------------------------------
(* The aggregator fed with stream envelopes that carry or lack metadata,   *)
(* over the open socket of a mounted provider.                             *)

NextMeta ==
    \/ StartQuery
    \/ \E s \in SockIds : ServerStatus(s)
    \/ \E s \in SockIds, c \in ChunkTexts, present \in SUBSET MetaFields :
          ServerChunkMeta(s, c, present)
    \/ \E s \in SockIds : ServerComplete(s)
    \/ \E s \in SockIds : ServerError(s)

InitMeta == Start(SessionOpen)

SpecMeta == InitMeta /\ [][NextMeta]_vars

----------------------------------------------------------------------------
(* The wire between query_stream and the provider: the envelopes of the    *)
(* generator delivered to the client under the tags the generator gives.   *)

NextWire ==
    \/ StartQuery
    \/ \E s \in SockIds : ServerStatus(s)
    \/ \E s \in SockIds, c \in ChunkTexts : EngineChunk(s, c)
    \/ \E s \in SockIds : ServerComplete(s)
    \/ \E s \in SockIds : ServerError(s)
    \/ \E s \in SockIds : ServerResponse(s)
    \/ ClearMessages

SpecWire == InitMeta /\ [][NextWire]_vars

----------------------------------------------------------------------------
(* The retrieval pipeline of one chat session: the selection, the query    *)
(* and the engine's answer.                                                *)

\* What listFiles() answers: the files of the corpus, or a failure.
Listings == {[ok |-> TRUE, files |-> rag.files], [ok |-> FALSE, files |-> {}]}

CanAsk == rag.generated + Len(rag.envelope) < MaxServed

\* The search button: the documents found become the selection.
SearchFiles(sims, heap, k, t) ==
    /\ rag.searchCalls < MaxServed
    /\ LET g == retrieve(rag, [top_k |-> k, similarity_threshold |-> t],
                         sims, heap)
       IN  Commit(Did([State EXCEPT
                          !.rag = [g EXCEPT !.searchResults = Names(g.results),
                                           !.selectedFiles = Names(g.results)]],
                      "search"))

\* A check box of the search results.
ToggleFile(f) ==
    /\ f \in rag.searchResults
    /\ Commit(Did([State EXCEPT !.rag.selectedFiles =
                      IF f \in @ THEN @ \ {f} ELSE @ \cup {f}],
                  "toggle"))

\* Send of ChatInterface.js with the current selection.
SendSelection(listing) ==
    /\ CanAsk
    /\ ~isLoading
    /\ LET files == handleSendFiles(rag.selectedFiles, listing)
           env == envelope(files, TRUE, DEFAULT_TOP_K, MANAGER_THRESHOLD)
       IN  Commit(Did([handleSendMessage(State) EXCEPT
                          !.rag.chosen = List(rag.selectedFiles),
                          !.rag.envelope = Append(@, env),
                          !.rag.selectedFiles = {},
                          !.rag.searchResults = {},
                          !.rag.results = <<>>,
                          !.rag.top_k = DEFAULT_TOP_K,
                          !.rag.threshold = DEFAULT_SIMILARITY_THRESHOLD],
                      "send:selection"))

\* sendMessage of the provider with the files its caller passes.
SendFiles(selectedFiles) ==
    /\ CanAsk
    /\ ~isLoading
    /\ LET env == envelope(selectedFiles, TRUE, DEFAULT_TOP_K,
                           MANAGER_THRESHOLD)
       IN  Commit(Did([handleSendMessage(State) EXCEPT
                          !.rag.chosen = selectedFiles,
                          !.rag.envelope = Append(@, env),
                          !.rag.results = <<>>,
                          !.rag.top_k = DEFAULT_TOP_K,
                          !.rag.threshold = DEFAULT_SIMILARITY_THRESHOLD],
                      "send:files"))

\* The engine reads the query of the session, resolves its documents,
\* generates and answers.
ServeQuery(s, sims, heap) ==
    /\ wire[s] > 0
    /\ sock[s] = "open"
    /\ rag.envelope # <<>>
    /\ Commit(Did(onmessage([State EXCEPT
                                !.wire[s] = @ - 1,
                                !.rag = chat(@, Head(@.envelope), sims, heap)],
                            Json([type |-> "response"])),
                  "serve"))

NextRetrieval ==
    \/ \E sims \in [rag.files -> Similarities], heap \in Rankings(rag.files),
          k \in TopKs, t \in Thresholds : SearchFiles(sims, heap, k, t)
    \/ \E f \in Docs : ToggleFile(f)
    \/ \E listing \in Listings : SendSelection(listing)
    \/ \E selectedFiles \in FileLists : SendFiles(selectedFiles)
    \/ \E s \in SockIds :
          /\ rag.envelope # <<>>
          /\ IF RetrievalMode(Head(rag.envelope)) = "automatic"
             THEN \E sims \in [rag.files -> Similarities],
                     heap \in Rankings(rag.files) : ServeQuery(s, sims, heap)
             ELSE ServeQuery(s, [d \in rag.files |-> 0],
                             CHOOSE heap \in Rankings(rag.files) : TRUE)

\* A session that is connected, with any corpus.
InitRetrieval ==
    \E F \in Corpora : Start([SessionOpen EXCEPT !.rag.files = F])

SpecRetrieval == InitRetrieval /\ [][NextRetrieval]_vars

----------------------------------------------------------------------------
(* Searches: the search panel of useChat and the search endpoint.          *)

\* Values the user may give to setTopK.
TopKInputs == {0, 1, 2, DEFAULT_TOP_K, UNLIMITED_TOP_K, UNLIMITED_TOP_K + 9}

SetTopK(value) ==
    /\ eng.topK # clampTopK(value)
    /\ Commit(Did([State EXCEPT !.eng.topK = clampTopK(value)], "setTopK"))

\* One request to the search endpoint and what its caller makes of it.
search(r, fault, sims, heap, top_k, t) ==
    LET found == searchOrRaise(fault, sims, heap, top_k, t)
    IN  [r EXCEPT !.rag = [searchSettled(@, found) EXCEPT
                              !.results = found.results,
                              !.threshold = t],
                  !.eng.searches = @ + 1,
                  !.eng.sims = sims,
                  !.eng.heap = heap,
                  !.eng.top_k = top_k,
                  !.eng.raised = found.raised]

\* The search button of useChat.
HandleSearchFiles(fault, sims, heap, t) ==
    /\ eng.searches < MaxSearches
    /\ Commit(Did(search(State, fault, sims, heap, requestTopK(eng.topK), t),
               IF fault = "none" THEN "search:ok" ELSE "search:failed"))

\* searchDocuments of the API client, called with any top_k.
SearchDocuments(fault, sims, heap, top_k, t) ==
    /\ eng.searches < MaxSearches
    /\ Commit(Did(search(State, fault, sims, heap, top_k, t),
               IF fault = "none" THEN "search:ok" ELSE "search:failed"))

NextSearch ==
    \/ \E value \in TopKInputs : SetTopK(value)
    \/ \E fault \in Faults, sims \in [rag.files -> Similarities],
          heap \in Rankings(rag.files), t \in Thresholds :
          HandleSearchFiles(fault, sims, heap, t)
    \/ \E fault \in Faults, sims \in [rag.files -> Similarities],
          heap \in Rankings(rag.files), top_k \in RequestTopKs, t \in Thresholds :
          SearchDocuments(fault, sims, heap, top_k, t)

SpecSearch == InitRetrieval /\ [][NextSearch]_vars

----------------------------------------------------------------------------
(* Properties.                                                             *)

\* **********************************************************************
\* The system prompt: useChat stores what the user typed, RAGService.query
\* formats it with the question.
\* **********************************************************************
SetSystemPrompt(prompt) ==
    /\ eng.systemPrompt # prompt
    /\ LET validation == validateSystemPrompt(prompt)
       IN Commit(Did([State EXCEPT !.eng.systemPrompt = prompt],
                     IF validation.warnings # {} \/ ~validation.isValid
                     THEN "setSystemPrompt:warned"
                     ELSE "setSystemPrompt"))

Ask(model_name, q, generationFails) ==
    Commit(Did([State EXCEPT !.eng.answer =
                   queryResult(model_name, eng.systemPrompt, q,
                               generationFails)],
               "query"))

NextPrompt ==
    \/ \E prompt \in Templates : SetSystemPrompt(prompt)
    \/ \E model_name \in ModelNames, q \in Queries, f \in BOOLEAN :
          Ask(model_name, q, f)

SpecPrompt == Init /\ [][NextPrompt]_vars

\* **********************************************************************
\* Streaming: the caller creates the generator and pulls its events.
\* **********************************************************************
QueryStream(model_name, system_prompt, q, source) ==
    /\ eng.gen.pc \in {"idle", "done"}
    /\ eng.gen.streams < MaxStreams
    /\ Commit(Did([State EXCEPT !.eng.gen =
                      query_stream(eng.gen, model_name, system_prompt, q,
                                   source)],
                  "query_stream"))

PullEvent ==
    /\ eng.gen.pc \in {"created", "running"}
    /\ Commit(Did([State EXCEPT !.eng.gen = next(eng.gen)], "next"))

NextStream ==
    \/ \E model_name \in ModelNames, system_prompt \in StreamPrompts,
          q \in Queries, source \in Sources :
          QueryStream(model_name, system_prompt, q, source)
    \/ PullEvent

SpecStream == Init /\ [][NextStream]_vars /\ WF_vars(PullEvent)

\* Both ways of asking, for what they do with the model's name.
NextValidation ==
    \/ \E model_name \in ModelNames, q \in Queries, f \in BOOLEAN :
          Ask(model_name, q, f)
    \/ \E model_name \in ModelNames, system_prompt \in StreamPrompts,
          q \in Queries, source \in Sources :
          QueryStream(model_name, system_prompt, q, source)
    \/ PullEvent

SpecValidation == Init /\ [][NextValidation]_vars

\* **********************************************************************
\* The HTTP chat path.
\* **********************************************************************
ApiSendMessage ==
    /\ eng.chat.pc \in {"idle", "done"}
    /\ eng.chat.asks < MaxAsks
    /\ Commit(Did([State EXCEPT !.eng.chat = apiSendMessage(eng.chat)],
                  "apiSendMessage"))

ChatQuery(generationFails, dbDown) ==
    /\ eng.chat.pc = "request"
    /\ Commit(Did([State EXCEPT !.eng.chat =
                      chatQuery(eng.chat, generationFails, dbDown)],
                  "chat:query"))

LogQuery ==
    /\ eng.chat.pc = "logging"
    /\ Commit(Did([State EXCEPT !.eng.chat = log_query(eng.chat)],
                  IF eng.chat.dbDown THEN "log:failed" ELSE "log"))

ChatRespond(outcome) ==
    /\ CanRespond(eng.chat)
    /\ Commit(Did([State EXCEPT !.eng.chat = chatSettled(eng.chat, outcome)],
                  "chat:" \o outcome))

NextHttp ==
    \/ ApiSendMessage
    \/ \E generationFails, dbDown \in BOOLEAN :
          ChatQuery(generationFails, dbDown)
    \/ LogQuery
    \/ \E outcome \in {"reply", "reject"} : ChatRespond(outcome)

SpecHttp == Init /\ [][NextHttp]_vars

\* **********************************************************************
\* The chat endpoint when a call it makes fails.
\* **********************************************************************
ServeOrFail(selected, auto, fault, fileFault, sims, heap) ==
    /\ eng.serve.served < MaxServed
    /\ Commit(Did(chatOrDegrade(State,
                                envelope(selected, auto, DEFAULT_TOP_K,
                                         MANAGER_THRESHOLD),
                                fault, fileFault, sims, heap),
                  "serve:" \o fault))

NextDegrade ==
    \E selected \in {NullList} \cup {List(S) : S \in SUBSET rag.files},
       auto, fileFault \in BOOLEAN, fault \in Faults,
       sims \in [rag.files -> Similarities], heap \in Rankings(rag.files) :
       ServeOrFail(selected, auto, fault, fileFault, sims, heap)

SpecDegrade == InitRetrieval /\ [][NextDegrade]_vars

\* **********************************************************************
\* The settings of useChat on their way to the search of the engine.
\* **********************************************************************
\* Values the user may give to setSimilarityThreshold, in percent.
ThresholdInputs == {MANAGER_THRESHOLD, DEFAULT_SIMILARITY_THRESHOLD, 150}

SetSimilarityThreshold(value) ==
    /\ eng.similarityThreshold # clampThreshold(value)
    /\ Commit(Did([State EXCEPT
                      !.eng.similarityThreshold = clampThreshold(value)],
                  "setSimilarityThreshold"))

\* handleSendMessage of useChat: it passes null for the files and, as fifth
\* and sixth argument, its top_k and threshold to sendMessage of the
\* provider, which takes four parameters and builds the envelope with the
\* literals 5 and 0.6.
UseChatSend ==
    /\ CanAsk
    /\ ~isLoading
    /\ LET env == envelope(NullList, TRUE, DEFAULT_TOP_K, MANAGER_THRESHOLD)
       IN  Commit(Did([handleSendMessage(State) EXCEPT
                          !.rag.chosen = NullList,
                          !.rag.envelope = Append(@, env),
                          !.rag.results = <<>>,
                          !.eng.passed =
                              [top_k |-> requestTopK(eng.topK),
                               similarity_threshold |->
                                   {eng.similarityThreshold}]],
                      "send:useChat"))

NextConfigured ==
    \/ \E value \in TopKInputs : SetTopK(value)
    \/ \E value \in ThresholdInputs : SetSimilarityThreshold(value)
    \/ UseChatSend
    \/ \E s \in SockIds, sims \in [rag.files -> Similarities],
          heap \in Rankings(rag.files) : ServeQuery(s, sims, heap)

SpecConfigured == InitRetrieval /\ [][NextConfigured]_vars

RECURSIVE Flatten(_)
\* The concatenation of a sequence of texts, in order.
Flatten(chunks) ==
    IF chunks = <<>> THEN <<>> ELSE Head(chunks) \o Flatten(Tail(chunks))

LastMessage == messages[Len(messages)]

\* C1: once attemptReconnect has found the attempts used up, and until the
\* client calls connect() or disconnect() or a connection is established,
\* the status is "error", it stays "error", and no socket is opened.
C1_ExhaustedIsError ==
    /\ [](hist.exhausted => status = "error")
    /\ [][hist.exhausted /\ hist'.exhausted =>
            status' = "error" /\ nsock' = nsock]_vars

\* C2: after disconnect(true), and until the client calls connect() again,
\* no step opens a socket or makes the status "connecting".
C2_PermanentSuppresses ==
    [][hist.permanent /\ hist'.permanent =>
          nsock' = nsock /\ status' # "connecting"]_vars

\* C3: while the status is "connected" and the socket is open the heartbeat
\* interval is running; a tick that finds the pong older than the timeout
\* cannot ping and go on; and the step that finds the timeout closes the
\* socket, which had reported no close, drops it as this.ws and leaves a
\* pending reconnect(), whose wake-up leaves a connection open or being
\* opened.
C3_HeartbeatForcesReconnect ==
    /\ [](status = "connected" /\ isConnected(State) => heartbeatInterval)
    /\ [](heartbeatInterval /\ isConnected(State) /\ ~MayNotTimeOut
            => ENABLED HeartbeatTimeout /\ ~ENABLED HeartbeatPing)
    /\ [][hist'.last = "heartbeatTimeout" =>
            /\ sock[ws] = "open" /\ sock'[ws] = "closing"
            /\ ws' = 0
            /\ sleepers'["reconnect"] = sleepers["reconnect"] + 1]_vars
    /\ [][hist'.last = "wakeReconnect" =>
            connectionPromise' \/ isConnected(State')]_vars

W_C3 ==
    /\ hist.last = "heartbeatTimeout"
    /\ status = "connected"
    /\ sleepers["reconnect"] = 1
    /\ \E s \in SockIds : sock[s] = "closing"

\* C7: whenever the promise of createWebSocket resolves (the socket has
\* opened while doConnect awaits it), the status becomes "connected" and
\* reconnectAttempts becomes 0.
C7_ConnectResets ==
    [][\A s \in SockIds :
          promise[s] = "pending" /\ promise'[s] = "settled"
              /\ sock'[s] = "open"
          => status' = "connected" /\ reconnectAttempts' = 0]_vars

W_C7 ==
    /\ hist.last = "onopen"
    /\ status = "connected"
    /\ reconnectAttempts = 0
    /\ sleepers["catch"] + sleepers["close"] > 0

\* C8: a sendMessage() made while the status is not "connected" throws and
\* puts nothing on the wire.
C8_SendNeedsConnected ==
    hist.last = "send:sent" => status = "connected"

\* C9: disconnect(true) leaves no message handler and no status handler
\* registered; the disconnect(false) that reconnect() makes (on a heartbeat
\* timeout or a change of url) leaves both sets as they were.
C9_DisconnectHandlers ==
    [][/\ hist'.last = "disconnect" =>
            messageHandlers' = {} /\ statusHandlers' = {}
       /\ hist'.last \in {"heartbeatTimeout", "updateConfigUrl"} =>
            messageHandlers' = messageHandlers
                /\ statusHandlers' = statusHandlers]_vars

W_C9 ==
    /\ hist.last = "heartbeatTimeout"
    /\ messageHandlers = {"ctx"}
    /\ statusHandlers = {"ctx"}

\* The provider's state and everything of the manager but the history.
ProgramVars ==
    <<ws, sock, promise, timer, nsock, status, shouldReconnect,
      reconnectAttempts, maxReconnectAttempts, reconnectDelay,
      connectionPromise, heartbeatInterval, pongAge, messageHandlers,
      statusHandlers, sleepers, wsConnected, wsConnecting, messages, isLoading, http,
      wire, srv, used, rag, eng>>

\* The messages of the history that are marked as streaming.
Streaming(msgs) == {i \in 1 .. Len(msgs) : msgs[i].isStreaming}

\* C4: at most one message of the history is streaming at a time; a query
\* the user starts while a streaming message is open is rejected (nothing
\* is appended to the history, nothing is sent, no fallback call is made);
\* and the server never holds two queries of one session, so the chunks of
\* two replies cannot alternate.
C4_OneStreamAtATime ==
    /\ [](Cardinality(Streaming(messages)) <= 1)
    /\ [][hist'.last \in {"send:accepted", "send:rejected"}
              /\ OpenStream(messages)
          => hist'.last = "send:rejected" /\ messages' = messages
                /\ wire' = wire /\ http' = http]_vars
    /\ [](\A s \in SockIds : wire[s] + (IF srv[s] = "idle" THEN 0 ELSE 1) <= 1)

\* C5: when an `error` envelope arrives while a streaming message is open,
\* the last message of the history afterwards is an error message, the
\* partial reply is no longer in the history as it was, and no message is
\* left streaming.
C5_ErrorClosesStream ==
    [][hist'.last = "frame:error" /\ OpenStream(messages)
          /\ "ctx" \in messageHandlers
       => /\ messages'[Len(messages')].isError
          /\ \A i \in 1 .. Len(messages') : messages'[i] # LastMessage
          /\ Streaming(messages') = {}]_vars

\* C6: after `complete` has closed a message fed by one or more chunks, the
\* chunks have made one message: it is the last of the history and follows
\* the user's query, it is not streaming, and its text is the concatenation
\* of the chunks in the order they arrived.
C6_ChunksConcatenate ==
    hist.last = "frame:complete" /\ hist.feed # <<>>
    => /\ Len(messages) > 0
       /\ LastMessage.sender = "bot"
       /\ ~LastMessage.isStreaming
       /\ LastMessage.text = Flatten(hist.feed)
       /\ Len(messages) > 1 => messages[Len(messages) - 1].sender = "user"

W_C6 ==
    /\ hist.last = "frame:complete"
    /\ hist.feed = << <<"H", "e", "l">>, <<"l", "o">> >>
    /\ LastMessage.text = <<"H", "e", "l", "l", "o">>
    /\ ~LastMessage.isStreaming

\* C10: a frame that is not JSON, or an envelope of an unknown type,
\* changes nothing: status, sockets, handlers, history and every other
\* field stay as they are, and the stream frame that follows it is still
\* appended to the history.
C10_JunkIsDropped ==
    /\ [][hist'.last = "frame:junk" => UNCHANGED ProgramVars]_vars
    /\ [][hist.last = "frame:junk" /\ hist'.last = "frame:stream"
             /\ "ctx" \in messageHandlers
          => messages' # messages]_vars

W_C10 ==
    /\ hist.last = "frame:junk"
    /\ OpenStream(messages)
    /\ status = "connected"

\* The status changes of the machine
\* Disconnected -> Connecting -> Connected -> (Disconnected | Error), with
\* the failure edge out of Connecting, read generously: a reconnect
\* re-enters Connecting from Error or Connected, and any state may fall
\* back to Disconnected.
StatusEdges ==
    {<<"disconnected", "connecting">>, <<"connecting", "connected">>,
     <<"connected", "disconnected">>, <<"connected", "error">>,
     <<"connecting", "error">>, <<"error", "connecting">>,
     <<"connected", "connecting">>, <<"connecting", "disconnected">>,
     <<"error", "disconnected">>}

\* C11: every step that changes the status takes an edge of the machine;
\* in particular the status becomes "connected" only from "connecting".
C11_StatusMachine ==
    [][status' # status =>
          /\ <<status, status'>> \in StatusEdges
          /\ status' = "connected" => status = "connecting"]_vars

C13_SlidingWindow ==
    /\ [](Len(messages) <= MAX_MESSAGES)
    /\ [][messages' # messages /\ messages' # <<>>
              /\ ~(Len(messages') = Len(messages) /\ Len(messages) > 0
                     /\ SubSeq(messages', 1, Len(messages') - 1)
                            = SubSeq(messages, 1, Len(messages) - 1))
          => LET dropped == Len(messages) + 1 - Len(messages')
             IN  /\ dropped = IF Len(messages) = MAX_MESSAGES THEN 1 ELSE 0
                 /\ \A i \in 1 .. Len(messages') - 1 :
                        messages'[i] = messages[i + dropped]]_vars
    /\ [][hist'.last \in {"send:accepted", "frame:response", "frame:error",
                          "http"}
          => /\ Len(messages') = Min(Len(messages) + 1, MAX_MESSAGES)
             /\ messages' # messages
             /\ hist'.last = "send:accepted"
                    => messages'[Len(messages')] = UserMessage]_vars

\* A query appended to a full history: message 1 is gone, message 2 is the
\* oldest, the query is the newest.
W_C13 ==
    /\ hist.last = "send:accepted"
    /\ Len(messages) = MAX_MESSAGES
    /\ messages[1].text = <<"2">>
    /\ messages[MAX_MESSAGES - 1].text = <<"20">>
    /\ messages[MAX_MESSAGES] = UserMessage

\* C14: once the attempts are used up the provider shows the session as
\* neither connected nor connecting; a query the user then sends goes to
\* the HTTP fallback and not to the socket, and the reply of the fallback
\* is appended to the history and ends the loading state.
C14_ExhaustedFallsBack ==
    /\ [](hist.exhausted /\ "ctx" \in statusHandlers
             => ~wsConnected /\ ~wsConnecting /\ ~isConnected(State))
    /\ [][hist.exhausted /\ hist'.last = "send:accepted"
          => http' = http + 1 /\ wire' = wire]_vars
    /\ [][hist.exhausted /\ hist'.last = "http"
          => /\ http' = http - 1
             /\ ~isLoading'
             /\ Len(messages') = Len(messages) + 1
             /\ messages'[Len(messages')].sender = "bot"]_vars

\* C15: a chunk appended to the open streaming message sets a metadata
\* field only when the envelope carries it: a files-used or model value
\* the message already has is still there after a chunk, whatever the
\* chunk lacks.
C15_MetadataKept ==
    [][hist'.last = "frame:stream" /\ OpenStream(messages)
          /\ "ctx" \in messageHandlers
       => /\ LastMessage.filesUsed # "undefined"
                => messages'[Len(messages')].filesUsed # "undefined"
          /\ LastMessage.modelUsed # "undefined"
                => messages'[Len(messages')].modelUsed # "undefined"]_vars

\* Everything of the manager and the provider but lastPongTime.
AllButPong ==
    <<ws, sock, promise, timer, nsock, status, shouldReconnect,
      reconnectAttempts, maxReconnectAttempts, reconnectDelay,
      connectionPromise, heartbeatInterval, messageHandlers,
      statusHandlers, sleepers, wsConnected, wsConnecting, messages,
      isLoading, http, wire, srv, used, rag, eng>>

C17_WireAgreement ==
    /\ [][hist'.last = "frame:chunk" /\ "ctx" \in messageHandlers
          => /\ OpenStream(messages')
             /\ Len(messages'[Len(messages')].text)
                  > IF OpenStream(messages) THEN Len(LastMessage.text)
                    ELSE 0]_vars
    /\ [][hist'.last \in {"frame:error", "frame:response"}
              /\ "ctx" \in messageHandlers
          => messages' # messages /\ ~isLoading']_vars


\* C18: a query is served in exactly one of the two modes, and a query whose
\* list of selected files is empty or absent is served in Automatic mode:
\* the engine runs one similarity search for it.
C18_EmptyListIsAutomatic ==
    [][hist'.last = "serve"
        => /\ rag'.mode \in {"manual", "automatic"}
           /\ (rag.chosen.isNull \/ rag.chosen.names = {})
                => /\ rag'.mode = "automatic"
                   /\ rag'.searchCalls = rag.searchCalls + 1]_vars

\* C19: a query that carries a non-empty list of files never invokes the
\* embedding service or the similarity search, and the files attached are
\* those of the list.
C19_ManualSkipsRetrieval ==
    [][(/\ hist'.last = "serve"
        /\ ~Head(rag.envelope).selected_files.isNull
        /\ Head(rag.envelope).selected_files.names # {})
        => /\ rag'.embedCalls = rag.embedCalls
           /\ rag'.searchCalls = rag.searchCalls
           /\ rag'.mode = "manual"
           /\ rag'.attached = Head(rag.envelope).selected_files.names
                                 \cap rag.files]_vars

W_C19 ==
    /\ hist.last = "serve"
    /\ rag.mode = "manual"
    /\ rag.chosen = List({"a", "b"})
    /\ rag.files = Docs
    /\ rag.attached = {"a", "b"}
    /\ rag.embedCalls = 0
    /\ rag.searchCalls = 0
    /\ rag.generated = 1

\* C20: the results of a search are in order of non-increasing similarity
\* and none of them has a similarity below the threshold of the search.
C20_SearchSortedAboveThreshold ==
    /\ \A i \in DOMAIN rag.results : rag.results[i].sim >= rag.threshold
    /\ \A i, j \in DOMAIN rag.results :
          i < j => rag.results[i].sim >= rag.results[j].sim

W_C20 ==
    /\ hist.last = "search"
    /\ rag.files = Docs
    /\ rag.top_k = DEFAULT_TOP_K
    /\ rag.threshold = DEFAULT_SIMILARITY_THRESHOLD
    /\ Len(rag.results) = 2
    /\ rag.results[1].sim = DEFAULT_SIMILARITY_THRESHOLD
    /\ rag.results[2].sim = DEFAULT_SIMILARITY_THRESHOLD


\* The documents of the last search whose similarity passes its threshold.
Passing == {d \in DOMAIN eng.sims : eng.sims[d] >= rag.threshold}

\* C21: a search with top_k = k > 0 returns at most k results, and a search
\* with top_k left out or 0 returns every document that passes the threshold.
C21_TopKLimits ==
    eng.searches > 0 /\ eng.raised = "none"
        => /\ \A k \in eng.top_k : k > 0 => Len(rag.results) <= k
           /\ (eng.top_k = {} \/ eng.top_k = {0})
                => Names(rag.results) = Passing

\* C22: results of equal similarity come in ascending order of document id,
\* so the list depends on nothing but the corpus, the query and the limits.
C22_TiesByDocumentId ==
    \A i, j \in DOMAIN rag.results :
        i < j /\ rag.results[i].sim = rag.results[j].sim
            => DocId[rag.results[i].doc] < DocId[rag.results[j].doc]


\* C29: a search that failed is never shown as an empty list of results: the
\* list is empty only after a search that succeeded and matched nothing.
C29_EmptyMeansNoMatch ==
    eng.searches > 0 /\ rag.searchResults = {}
        => eng.raised = "none" /\ rag.results = <<>>

\* C23: for every template, with or without the query placeholder, and every
\* query, the prompt is assembled without failure and contains the query.
C23_PromptContainsQuery ==
    eng.answer.asked /\ eng.answer.raised = "none"
    /\ ~("generation" \in eng.answer.message)
        => /\ eng.answer.success
           /\ \E i \in DOMAIN eng.answer.prompt :
                 eng.answer.prompt[i] = eng.answer.query

EventTypes == [i \in DOMAIN eng.gen.events |-> eng.gen.events[i].type]

Terminal == {"complete", "error"}

Terminated ==
    eng.gen.events # <<>>
    /\ eng.gen.events[Len(eng.gen.events)].type \in Terminal

\* The events so far are chunks, with at most one terminal event and that one
\* last; a generator that ended has a terminal event; the terminal event is
\* complete exactly when nothing failed, and then the whole stream was read.
StreamShape ==
    /\ \A i \in DOMAIN EventTypes :
          i < Len(EventTypes) => EventTypes[i] = "chunk"
    /\ eng.gen.pc = "done" <=> Terminated
    /\ Terminated =>
          /\ eng.gen.failed
                <=> EventTypes[Len(EventTypes)] = "error"
          /\ EventTypes[Len(EventTypes)] = "complete"
                => eng.gen.source = <<>>

\* C24: a streaming generation emits chunks and then exactly one terminal
\* event, with nothing after it; the terminal event is complete only when
\* the whole stream was produced and is an error event when something
\* failed; and every generation that is pulled reaches its terminal event.
C24_OneTerminalEvent ==
    /\ [] StreamShape
    /\ [][Terminated /\ eng.gen.streams' = eng.gen.streams
            => eng.gen.events' = eng.gen.events]_vars
    /\ (eng.gen.pc = "created") ~> Terminated

W_C24 ==
    /\ eng.gen.pc = "done"
    /\ EventTypes = <<"chunk", "error">>
    /\ eng.gen.source # <<>>

StreamModel ==
    IF eng.gen.model_name = "" THEN DEFAULT_MODEL ELSE eng.gen.model_name

\* C25: a request for a model outside the available set fails before any
\* generation call, in the plain and in the streaming mode, with an error
\* that names the requested model and lists the available ones.
C25_UnsupportedModelListsValid ==
    /\ eng.answer.asked /\ eng.answer.model_name \notin available_model_ids
          => /\ eng.answer.raised = "ModelValidationError"
             /\ eng.answer.generateCalls = 0
             /\ eng.answer.message
                   = {eng.answer.model_name} \cup available_model_ids
    /\ eng.gen.pc = "done" /\ StreamModel \notin available_model_ids
          => /\ EventTypes = <<"error">>
             /\ eng.gen.generateCalls = 0
             /\ eng.gen.events[1].message
                   = {StreamModel} \cup available_model_ids

\* C26: a generation failure is surfaced as an error of its request, and the
\* request is never issued again on its own: one user query causes at most
\* one generation request.
C26_OneGenerationPerQuery ==
    /\ eng.chat.generateCalls <= eng.chat.asks
    /\ eng.chat.pc = "done" /\ ~eng.chat.success
          => eng.chat.response \in {"error", "failed"}

\* C27: every query that completed or failed has exactly one entry in the
\* query log.
C27_OneEntryPerQuery ==
    eng.chat.pc = "done"
        => \A a \in 1 .. eng.chat.asks :
              Cardinality({i \in DOMAIN eng.chat.log :
                              eng.chat.log[i].ask = a}) = 1

\* C30: a failing write of the query log does not hold back the answer: once
\* the result of the query is there, the answer can be sent whatever the
\* state of the log write.
C30_ResponseDoesNotWaitForLog ==
    eng.chat.pc \in {"logging", "logged"} /\ eng.chat.dbDown
        => CanRespond(eng.chat)

C31_ConfiguredValuesApplied ==
    /\ \A i \in DOMAIN rag.envelope :
          /\ \A k \in eng.passed.top_k : rag.envelope[i].top_k = k
          /\ \A t \in eng.passed.similarity_threshold :
                rag.envelope[i].similarity_threshold = t
    /\ hist.last = "serve" /\ rag.mode = "automatic"
          => /\ \A k \in eng.passed.top_k : rag.top_k = k
             /\ \A t \in eng.passed.similarity_threshold : rag.threshold = t

\* Sockets that are opening or open, and sleeps that end in a new attempt.
LiveSockets == {s \in SockIds : sock[s] \in {"connecting", "open"}}

PendingReconnects ==
    sleepers["catch"] + sleepers["close"] + sleepers["reconnect"]

\* C32: at any time at most one socket is opening or open and at most one
\* reconnect timer is pending: one failure starts one reconnect chain.
C32_OneSocketOneTimer ==
    /\ Cardinality(LiveSockets) <= 1
    /\ PendingReconnects <= 1

\* C33: the status is connected exactly when the current socket is open.
C33_ConnectedIffOpen ==
    status = "connected" <=> isConnected(State)

\* C37: a heartbeat timer runs exactly while the status is connected.
C37_HeartbeatIffConnected ==
    status = "connected" <=> heartbeatInterval

\* C40: the attempt counter lies between 0 and the maximum, also after
\* updateConfig changed the maximum.
C40_CounterWithinBound ==
    0 <= reconnectAttempts /\ reconnectAttempts <= maxReconnectAttempts

\* C36: when the client calls connect() after the reconnect attempts were
\* used up and the connection attempt of that call fails, an automatic
\* reconnect attempt is pending after the failure and the attempts are not
\* found used up again at once.
C36_FreshSeriesAfterExhaustion ==
    [][hist.last = "connect:exhausted" /\ hist'.last = "onfail" =>
          ~hist'.exhausted /\ PendingReconnects' > 0]_vars

----------------------------------------------------------------------------
(* The provider is mounted when the page loads and stays mounted while the *)
(* manager connects, loses connections, reconnects and is disconnected and *)
(* connected again by its client.                                          *)

InitProvider == Start(mount(InitState))

NextProvider ==
    \/ Connect /\ nsock < MaxSockets
    \/ Disconnect
    \/ \E m \in ConfigMaxValues : UpdateConfigMax(m)
    \/ UpdateConfigUrl
    \/ \E s \in SockIds : SocketOpen(s)
    \/ \E s \in SockIds : SocketFail(s)
    \/ \E s \in SockIds : SocketDrop(s)
    \/ \E s \in SockIds : SocketClean(s)
    \/ \E from \in {"catch", "close"} :
          WakeAttempt(from) /\ (shouldReconnect => nsock < MaxSockets)
    \/ WakeReconnect /\ nsock < MaxSockets

SpecProvider == InitProvider /\ [][NextProvider]_vars

\* C38: the wsConnected flag of the provider is true exactly when the
\* status of the manager is "connected".
C38_FlagFollowsStatus == wsConnected <=> status = "connected"

\* C35: at most one message of the history has isStreaming set, and a
\* message that has it set is the last message of the history.
C35_StreamingIsLast ==
    /\ Cardinality(Streaming(messages)) <= 1
    /\ Streaming(messages) \subseteq {Len(messages)}

----------------------------------------------------------------------------
(* The session of a mounted provider with the progress its environment     *)
(* guarantees: an HTTP call settles, a socket that is connecting opens or  *)
(* fails, the server reads a query it received and ends the reply it       *)
(* started, and a reconnect sleep ends. A lost connection is not forced.   *)

NextSession ==
    \/ \E s \in SockIds : SocketOpen(s)
    \/ \E s \in SockIds : SocketFail(s)
    \/ \E s \in SockIds : SocketDrop(s)
    \/ \E from \in {"catch", "close"} : WakeAttempt(from) /\ nsock' <= MaxSockets
    \/ StartQuery
    \/ \E outcome \in {"ok", "failed", "threw"} : HttpSettled(outcome)
    \/ \E s \in SockIds : ServerStatus(s)
    \/ \E s \in SockIds, c \in ChunkTexts : ServerChunk(s, c)
    \/ \E s \in SockIds : ServerComplete(s)
    \/ \E s \in SockIds : ServerError(s)
    \/ \E s \in SockIds : ServerResponse(s)

FairSession ==
    /\ WF_vars(\E outcome \in {"ok", "failed", "threw"} : HttpSettled(outcome))
    /\ WF_vars(\E from \in {"catch", "close"} :
                  WakeAttempt(from) /\ nsock' <= MaxSockets)
    /\ \A s \in SockIds :
          /\ WF_vars(SocketOpen(s) \/ SocketFail(s))
          /\ WF_vars(ServerStatus(s))
          /\ WF_vars(ServerComplete(s) \/ ServerError(s) \/ ServerResponse(s))

SpecSession == InitProvider /\ [][NextSession]_vars /\ FairSession

\* C34: a query that set the loading flag is followed by a state where the
\* flag is false again, whatever happens to the connection meanwhile.
C34_QueryTerminates == isLoading ~> ~isLoading

----------------------------------------------------------------------------
(* Dispatch to several handlers, some of which throw. Besides the          *)
(* provider's handler two more subscribers are registered, one before and  *)
(* one after it; a Set iterates in the order of insertion, and removing a  *)
(* handler keeps the order of the others.                                  *)

Subscribers == {"before", "after"}

Registration == <<"before", "ctx", "after">>

\* The handlers at the positions ps of the iteration order.
At(order, ps) == {order[i] : i \in ps}

\* handlers.forEach(handler => handler(x)) inside one try/catch, as the
\* onmessage of ChatWebSocket (services/websocket.js) does: the first
\* handler that throws ends the loop, and the exception leaves it.
forEachHandlerOneTry(order, handlers, throwing) ==
    LET reached == {i \in 1 .. Len(order) :
                       /\ order[i] \in handlers
                       /\ \A j \in 1 .. (i - 1) :
                             order[j] \notin (handlers \cap throwing)}
    IN  [called |-> At(order, reached),
         escaped |-> handlers \cap throwing # {}]

\* handlers.forEach(handler => { try { handler(x) } catch { log } }): the
\* handlers that are called when those of `throwing` throw, and whether an
\* exception leaves the loop.
forEachHandler(order, handlers, throwing) ==
    [called |-> At(order, {i \in 1 .. Len(order) : order[i] \in handlers}),
     escaped |-> FALSE]

\* The unsubscribe closures returned by onMessage and onStatusChange.
Unsubscribe(h) ==
    /\ h \in messageHandlers \cup statusHandlers
    /\ Commit(Did([State EXCEPT !.messageHandlers = @ \ {h},
                                !.statusHandlers = @ \ {h}],
                  "unsubscribe"))

\* A JSON frame arrives on the open socket s and the handlers of `throwing`
\* throw when they are called. An exception that leaves
\* notifyMessageHandlers is caught by the try/catch of onmessage.
DispatchFrame(s, throwing) ==
    /\ sock[s] = "open"
    /\ throwing \subseteq messageHandlers
    /\ LET d == forEachHandler(Registration, messageHandlers, throwing)
           r1 == IF "ctx" \in d.called
                 THEN handleWebSocketMessage(State, [type |-> "status"])
                 ELSE State
       IN  Commit(Did([r1 EXCEPT !.hist.dispatch =
                                    [called |-> d.called, threw |-> throwing,
                                     escaped |-> d.escaped]],
                      "dispatch:frame"))

\* Socket s opens and doConnect calls updateStatus('connected'); the status
\* handlers of `throwing` throw when they are called. An exception that
\* leaves updateStatus is thrown inside the try block of doConnect, after
\* the assignments of lines 167 and 131, and is handled by its catch block.
DispatchOpen(s, throwing) ==
    /\ sock[s] = "connecting"
    /\ promise[s] = "pending"
    /\ throwing \subseteq statusHandlers
    /\ LET d == forEachHandler(Registration, statusHandlers, throwing)
           r0 == [State EXCEPT !.sock[s] = "open"]
           r1 == [r0 EXCEPT !.timer[s] = FALSE, !.pongAge = 0,
                            !.promise[s] = "settled",
                            !.reconnectAttempts = 0,
                            !.status = "connected"]
           r2 == IF d.escaped THEN doConnectFail(r1) ELSE onopen(r0, s)
       IN  Commit(Did([r2 EXCEPT !.hist.dispatch =
                                    [called |-> d.called, threw |-> throwing,
                                     escaped |-> d.escaped]],
                      "dispatch:status"))

InitDispatch ==
    Start([mount(InitState) EXCEPT !.messageHandlers = @ \cup Subscribers,
                                   !.statusHandlers = @ \cup Subscribers])

NextDispatch ==
    \/ \E h \in Subscribers : Unsubscribe(h)
    \/ \E s \in SockIds, throwing \in SUBSET Subscribers :
          DispatchFrame(s, throwing)
    \/ \E s \in SockIds, throwing \in SUBSET Subscribers :
          DispatchOpen(s, throwing)
    \/ \E s \in SockIds : SocketDrop(s)
    \/ \E from \in {"catch", "close"} : WakeAttempt(from) /\ nsock' <= MaxSockets

SpecDispatch == InitDispatch /\ [][NextDispatch]_vars

============================================================================
